---------------------------- MODULE Spec2Model ----------------------------
(***************************************************************************)
(* Model of leed/calc_rprime.py: clustering of spot radii, resolution of   *)
(* one (x, sintheta) sample per image, and the two-pass line fit.          *)
(*                                                                         *)
(* Fixed-point units (the program computes in floating point):             *)
(*   radii of spots            integers, pixels                            *)
(*   entries of xs, medians    half pixels (a median of an even number of  *)
(*                             integer radii is a multiple of 1/2)         *)
(*   angles                    milliradians                                *)
(*   wavelength lamb           1e-3 angstrom                               *)
(*   lattice constants         1e-5 angstrom                               *)
(*   sintheta                  1e-4                                        *)
(*   u = sin/sqrt(1-sin^2)     1e-2                                        *)
(*   slope, intercept          1e-2 half pixel per 1e-2 of u,              *)
(*                             1e-2 half pixel                             *)
(***************************************************************************)
EXTENDS Integers, Sequences, FiniteSets, TLC

VARIABLES
    base_type,       \* {kind, surface} given to calc_rprime
    n_images,        \* len(image_paths)
    i,               \* number of loop iterations of calc_rprime completed
    xs, sinthetas,   \* the accumulated samples
    pc,              \* "loop", "returned" or "raised"; "idle" outside a run
    err,             \* the exception that surfaced, or "none"
    log,             \* what each completed iteration did, in image order
    theta_baseline,  \* the array theta_baseline as the last call left it
    prev_baseline,   \* the same, as the call before the last one left it
    in_x, in_theta,  \* arguments of clustering (clustering on its own)
    cand,            \* cluster, cluster_theta after line 133 (on its own)
    cluster, cluster_theta, \* result of the last call of clustering
    voltage,         \* voltages[i] of the last call of calc_x_and_sintheta
    sample,          \* what the last call of calc_x_and_sintheta returned
    fit1, fit2,      \* the data of the two calls of np.polyfit
    rprime           \* the returned slope

vars == <<base_type, n_images, i, xs, sinthetas, pc, err, log, theta_baseline,
          prev_baseline,
          in_x, in_theta, cand, cluster, cluster_theta, voltage, sample,
          fit1, fit2, rprime>>

-----------------------------------------------------------------------------
(* Bounds of the model *)

MaxSpots == 3

MaxClusters == 2

MaxImages == 2

-----------------------------------------------------------------------------
(* Program constants *)

\* np.pi, in milliradians
PI == 3142

\* the tolerance 0.1 rad of lines 83, 104 and 139, in milliradians
AngleTol == 100

\* delta_bin, line 111
delta_bin == 10

\* bins=100 of np.histogram, line 112
NBins == 100

\* the upper end of range=(0, 500), line 112
RangeMax == 500

\* the value 100 that marks an unset slot of theta_baseline (line 68), in
\* milliradians
Unset == 100000

\* the outlier threshold 50 of line 58, in half pixels
OutlierTol == 100

-----------------------------------------------------------------------------
(* Helpers *)

Abs(a) == IF a < 0 THEN -a ELSE a

RECURSIVE SeqMin(_)
SeqMin(s) ==
    IF Len(s) = 1 THEN s[1]
    ELSE LET m == SeqMin(Tail(s)) IN IF s[1] < m THEN s[1] ELSE m

RECURSIVE SeqSum(_)
SeqSum(s) == IF s = <<>> THEN 0 ELSE s[1] + SeqSum(Tail(s))

\* s with v inserted so that a sorted s stays sorted
RECURSIVE InsertSorted(_, _)
InsertSorted(s, v) ==
    IF s = <<>> THEN <<v>>
    ELSE IF v <= s[1] THEN <<v>> \o s
    ELSE <<s[1]>> \o InsertSorted(Tail(s), v)

RECURSIVE Sorted(_)
Sorted(s) == IF s = <<>> THEN <<>> ELSE InsertSorted(Sorted(Tail(s)), s[1])

\* np.median, doubled: the result is in half pixels
Median2(s) ==
    LET t == Sorted(s)
        n == Len(t)
    IN  IF n % 2 = 1 THEN 2 * t[(n + 1) \div 2]
        ELSE t[n \div 2] + t[n \div 2 + 1]

\* the largest r with r*r <= n, by bisection on lo..hi
RECURSIVE Bisect(_, _, _)
Bisect(n, lo, hi) ==
    IF lo = hi THEN lo
    ELSE LET mid == (lo + hi + 1) \div 2
         IN  IF mid * mid <= n THEN Bisect(n, mid, hi) ELSE Bisect(n, lo, mid - 1)

ISqrt(n) == Bisect(n, 0, 40000)

-----------------------------------------------------------------------------
(* clustering(x, theta), lines 110-147 *)

\* the index of the bin np.histogram counts radius r in; the last bin is
\* closed on the right, values outside the range are not counted
BinIndex(r) ==
    IF r = RangeMax THEN NBins - 1 ELSE (r * NBins) \div RangeMax

InRange(r) == r >= 0 /\ r <= RangeMax

\* freq[j] of line 112, bins numbered from 0
Freq(x, j) == Cardinality({k \in 1..Len(x) : InRange(x[k]) /\ BinIndex(x[k]) = j})

\* bins[j] of line 112
BinStart(j) == (j * RangeMax) \div NBins

\* the indices j of lines 115-116 with freq[j] non-zero
NonEmptyBins(x) == {BinIndex(x[k]) : k \in {m \in 1..Len(x) : InRange(x[m])}}

\* bin_freqs of lines 113-117: [bins[j], freq[j]] of the non-empty bins, by
\* increasing j
RECURSIVE BinFreqsOf(_, _)
BinFreqsOf(x, js) ==
    IF js = {} THEN <<>>
    ELSE LET j == CHOOSE a \in js : \A b \in js : a <= b
         IN  <<(<<BinStart(j), Freq(x, j)>>)>> \o BinFreqsOf(x, js \ {j})

BinFreqs(x) == BinFreqsOf(x, NonEmptyBins(x))

\* the indices selected by the mask x_range of line 128, in array order
XRange(x, start, end) ==
    SelectSeq([k \in 1..Len(x) |-> k],
              LAMBDA k : x[k] >= start /\ x[k] <= end + delta_bin)

Pick(s, idx) == [k \in 1..Len(idx) |-> s[idx[k]]]

\* end of line 127: the current bin at the last non-empty bin, else the
\* previous non-empty bin
ClusterEnd(bf, j) ==
    IF j = Len(bf) THEN bf[j][1] ELSE bf[j - 1][1]

\* the loop of lines 123-133 from iteration j (1-based) on; acc holds the
\* lists cluster and cluster_theta
RECURSIVE Walk(_, _, _, _, _, _, _)
Walk(bf, x, theta, j, prev_bin, start, acc) ==
    IF j > Len(bf) THEN acc
    ELSE
      LET current_bin == bf[j][1]
          boundary == current_bin > prev_bin + delta_bin \/ j = Len(bf)
          idx == XRange(x, start, ClusterEnd(bf, j))
          acc2 == IF boundary /\ j # 1 /\ Len(idx) > 1
                  THEN [cluster |-> Append(acc.cluster, Pick(x, idx)),
                        cluster_theta |-> Append(acc.cluster_theta, Pick(theta, idx))]
                  ELSE acc
          start2 == IF boundary THEN current_bin ELSE start
      IN  Walk(bf, x, theta, j + 1, current_bin, start2, acc2)

\* cluster and cluster_theta after line 133
Candidates(x, theta) ==
    Walk(BinFreqs(x), x, theta, 1, 0, 0, [cluster |-> <<>>, cluster_theta |-> <<>>])

\* the test of lines 138-139
Opposed(t1, t2) == Abs(PI - Abs(t1 - t2)) < AngleTol

\* itertools.combinations(range(n), 2), in its order
RECURSIVE CombFrom(_, _, _)
CombFrom(n, a, b) ==
    IF a >= n THEN <<>>
    ELSE IF b > n THEN CombFrom(n, a + 1, a + 2)
    ELSE <<(<<a, b>>)>> \o CombFrom(n, a, b + 1)

Combinations(n) == CombFrom(n, 1, 2)

\* the first pair of th that passes the test
FirstOppositionPair(th) ==
    LET cs == Combinations(Len(th))
        hits == SelectSeq(cs, LAMBDA c : Opposed(th[c[1]], th[c[2]]))
    IN  IF hits = <<>> THEN <<>> ELSE <<th[hits[1][1]], th[hits[1][2]]>>

\* lines 137-141 for one cluster: the value cluster_theta[j] is left with
\* when valid_cluster[j] is set, <<>> when it is not set. The iterator of
\* line 137 is built from the angles the cluster had on entry.
OppositionPair(th) ==
    LET cs == Combinations(Len(th))
        hits == SelectSeq(cs, LAMBDA c : Opposed(th[c[1]], th[c[2]]))
        last == hits[Len(hits)]
    IN  IF hits = <<>> THEN <<>> ELSE <<th[last[1]], th[last[2]]>>

\* lines 135-147; None, None is [none |-> TRUE]
Validate(c) ==
    LET n == Len(c.cluster)
        pair == [j \in 1..n |-> OppositionPair(c.cluster_theta[j])]
        keep == SelectSeq([j \in 1..n |-> j], LAMBDA j : pair[j] # <<>>)
    IN  [none |-> keep = <<>>,
         cluster |-> [k \in 1..Len(keep) |-> c.cluster[keep[k]]],
         cluster_theta |-> [k \in 1..Len(keep) |-> pair[keep[k]]]]

Clustering(x, theta) == Validate(Candidates(x, theta))

-----------------------------------------------------------------------------
(* calc_x_and_sintheta(xs, sinthetas, base_type, cluster, cluster_theta,   *)
(* voltage), lines 67-107                                                  *)

\* the dictionary a of line 69
LatticeA(kind) ==
    CASE kind = "Cu" -> 361496
      [] kind = "Ag" -> 408620
      [] kind = "Au" -> 407864

\* beam voltages of the voltage table, in volts
Voltages == {38, 75, 150}

\* np.sqrt(150.4 / voltage), lines 73, 85 and 106, computed once per voltage
LambTable == [v \in Voltages |-> ISqrt(150400000 \div v)]

Lamb(v) == LambTable[v]

\* theoretical_d of line 72: (a / 2**0.5) * 3**0.5 / 2
TheoreticalD(kind) == ((((LatticeA(kind) * 1000) \div 1414) * 1732) \div 1000) \div 2

\* a baseline array that outlives the call
KeptBaseline(left) == left

\* theta_baseline of line 68, whatever an earlier call left behind
FreshBaseline(left) == <<Unset, Unset>>

NoSample(tb) == [none |-> TRUE, x |-> 0, sintheta |-> 0, tb |-> tb]

Sample(x, s, tb) == [none |-> FALSE, x |-> x, sintheta |-> s, tb |-> tb]

\* lines 71-74
Calc111(kind, cl, v, tb) ==
    Sample(Median2(cl[1]), (Lamb(v) * 100000) \div (TheoreticalD(kind) \div 10), tb)

\* n of line 86 for a median x (half pixels)
Order(x, v) == (5 * x) \div Lamb(v) + 1

\* line 87
SinAu(n, v) == (n * Lamb(v) * 50000) \div (LatticeA("Au") \div 10)

\* lines 78-79
CaptureFirst(tb, clth) ==
    IF tb[1] = Unset THEN <<SeqMin(clth[1]), tb[2]>> ELSE tb

\* the same test without the order check of lines 88-89
AcceptsAuAnyOrder(tb, cl, clth, v, j) ==
    Abs(tb[1] - SeqMin(clth[j])) < AngleTol

\* the test of lines 82-83 and 88 for cluster j
AcceptsAu(tb, cl, clth, v, j) ==
    /\ Abs(tb[1] - SeqMin(clth[j])) < AngleTol
    /\ ~(Order(Median2(cl[j]), v) > 2)

\* lines 77-91
CalcAu110(cl, clth, v, tb0) ==
    LET tb == CaptureFirst(tb0, clth)
        hits == SelectSeq([j \in 1..Len(clth) |-> j],
                          LAMBDA j : AcceptsAu(tb, cl, clth, v, j))
        x == Median2(cl[hits[1]])
    IN  IF hits = <<>> THEN NoSample(tb)
        ELSE Sample(x, SinAu(Order(x, v), v), tb)

\* lines 93-97 with the two slots mixed up
CaptureBothSwapped(tb, clth) ==
    <<IF Len(clth) > 1 THEN SeqMin(clth[2]) ELSE tb[1], SeqMin(clth[1])>>

\* lines 93-97
CaptureBoth(tb, clth) ==
    LET t1 == CaptureFirst(tb, clth)
    IN  IF Len(clth) > 1 /\ t1[2] = Unset THEN <<t1[1], SeqMin(clth[2])>> ELSE t1

\* lines 105-106 for reference slot k (1-based): n = 1, or 2**0.5
SinAgCu(kind, k, v) ==
    LET nl == IF k = 1 THEN Lamb(v) ELSE (Lamb(v) * 1414) \div 1000
    IN  (nl * 100000) \div (LatticeA(kind) \div 10)

\* the (j, k) of lines 99-102 in loop order: j stops after index 2
RECURSIVE SlotsFrom(_, _, _)
SlotsFrom(n, j, k) ==
    IF j > n \/ j > 3 THEN <<>>
    ELSE IF k > 2 THEN SlotsFrom(n, j + 1, 1)
    ELSE <<(<<j, k>>)>> \o SlotsFrom(n, j, k + 1)

Slots(n) == SlotsFrom(n, 1, 1)

\* lines 92-107
CalcAgCu110(kind, cl, clth, v, tb0) ==
    LET tb == CaptureBoth(tb0, clth)
        hits == SelectSeq(Slots(Len(clth)),
                          LAMBDA jk : Abs(tb[jk[2]] - SeqMin(clth[jk[1]])) < AngleTol)
        jk == hits[1]
    IN  IF hits = <<>> THEN NoSample(tb)
        ELSE Sample(Median2(cl[jk[1]]), SinAgCu(kind, jk[2], v), tb)

\* lines 67-107; tb0 is theta_baseline after line 68
CalcXAndSintheta(bt, cl, clth, v, tb0) ==
    IF bt.surface = "111" THEN Calc111(bt.kind, cl, v, tb0)
    ELSE IF bt.kind = "Au" THEN CalcAu110(cl, clth, v, tb0)
    ELSE CalcAgCu110(bt.kind, cl, clth, v, tb0)

-----------------------------------------------------------------------------
(* fit_xs_and_sinthetas(xs, sinthetas), lines 53-64 *)

\* line 54 for one entry
U(s) == (s * 100) \div ISqrt(100000000 - s * s)

\* np.polyfit(u, x, 1) by the normal equations. With a single distinct value
\* of u the scaled design matrix holds NaN and LAPACK either fails or yields
\* NaN, as the build has it: lapack is that outcome.
Polyfit(u, x, lapack) ==
    LET n == Len(u)
        su == SeqSum(u)
        sx == SeqSum(x)
        suu == SeqSum([k \in 1..n |-> u[k] * u[k]])
        sux == SeqSum([k \in 1..n |-> u[k] * x[k]])
        d == n * suu - su * su
        slope == ((n * sux - su * sx) * 100) \div d
    IN  IF d = 0
        THEN [raised |-> lapack = "LinAlgError", nan |-> TRUE, slope |-> 0, intercept |-> 0]
        ELSE [raised |-> FALSE, nan |-> FALSE, slope |-> slope,
              intercept |-> (100 * sx - slope * su) \div n]

\* line 58; a comparison with NaN is False
Outlier(f, u, x) ==
    ~f.nan /\ Abs(f.slope * u + f.intercept - 100 * x) > 100 * OutlierTol

\* lines 59-60 without np.insert
NotReseeded(s, keep) == [k \in 1..Len(keep) |-> s[keep[k]]]

\* lines 59-60: the entries that are no outliers, behind an inserted 0
Reseeded(s, keep) == <<0>> \o [k \in 1..Len(keep) |-> s[keep[k]]]

\* lines 53-64
FitXsAndSinthetas(x, s, lapack) ==
    LET u == [k \in 1..Len(s) |-> U(s[k])]
        f1 == Polyfit(u, x, lapack)
        keep == SelectSeq([k \in 1..Len(x) |-> k], LAMBDA k : ~Outlier(f1, u[k], x[k]))
        u2 == Reseeded(u, keep)
        x2 == Reseeded(x, keep)
        f2 == Polyfit(u2, x2, lapack)
    IN  [fit1 |-> [u |-> u, x |-> x],
         fit2 |-> IF f1.raised THEN [u |-> <<>>, x |-> <<>>] ELSE [u |-> u2, x |-> x2],
         raised |-> f1.raised \/ f2.raised,
         nan |-> f2.nan,
         rprime |-> IF f1.raised THEN 0 ELSE f2.slope]

-----------------------------------------------------------------------------
(* Inputs *)

BaseTypes == [kind : {"Au", "Ag", "Cu"}, surface : {"110", "111"}]

\* what cv2.cartToPolar yields for the vectors of a detection: one
\* (magnitude, angle) per vector, the angle in [0, 2 pi). The vectors are
\* arbitrary, so the polar points are drawn directly.
SpotSeqs(radii, angles, n) ==
    UNION {[1..m -> radii \X angles] : m \in 1..n}

XOf(d) == [k \in 1..Len(d) |-> d[k][1]]

ThetaOf(d) == [k \in 1..Len(d) |-> d[k][2]]

\* radii: two in one bin, the next bin, bins 30 and 60 further, a far ring
ClRadii == {100, 102, 107, 130, 160}

\* angles: a spot, and spots pi, pi + 0.05 and pi + 0.2 away from it
ClAngles == {500, 3642, 3692, 3842}

\* the detections of the images of a run: one or two spots each, on two
\* neighbouring bins and in two angular families (0.5 and 0.64 rad, both
\* opposed to 3.7 rad)
Detections == SpotSeqs({250, 255}, {500, 640, 3700}, 2)

\* clustering(x, theta) of every detection, computed once
DetectionClusters == [d \in Detections |-> Clustering(XOf(d), ThetaOf(d))]

\* the clusters handed to calc_x_and_sintheta: radii and a pair of opposed
\* angles. The lists are every sequence of them: those by increasing radius
\* are what clustering returns, the others are further arguments of the
\* function.
CalcClusters == [r : {<<100, 105>>, <<255, 250>>, <<400, 405, 410>>},
                 th : {<<500, 3642>>, <<3692, 560>>, <<620, 3762>>}]

CalcLists == UNION {[1..m -> CalcClusters] : m \in 1..MaxClusters}

-----------------------------------------------------------------------------
(* calc_rprime, lines 150-175 *)

NoCall == [none |-> TRUE, x |-> 0, sintheta |-> 0]

NoFit == [u |-> <<>>, x |-> <<>>]

NoRprime == [nan |-> FALSE, val |-> 0]

\* lines 153-154, before the first iteration
Init ==
    /\ base_type \in BaseTypes
    /\ n_images \in 0..MaxImages
    /\ i = 0
    /\ xs = <<0>>
    /\ sinthetas = <<0>>
    /\ pc = "loop"
    /\ err = "none"
    /\ log = <<>>
    /\ theta_baseline = <<Unset, Unset>>
    /\ prev_baseline = <<Unset, Unset>>
    /\ in_x = <<>>
    /\ in_theta = <<>>
    /\ cand = [cluster |-> <<>>, cluster_theta |-> <<>>]
    /\ cluster = <<>>
    /\ cluster_theta = <<>>
    /\ voltage = 0
    /\ sample = NoCall
    /\ fit1 = NoFit
    /\ fit2 = NoFit
    /\ rprime = NoRprime

\* an iteration of lines 156-168 in which detect returns None (line 159)
DetectAbsent ==
    /\ pc = "loop"
    /\ i < n_images
    /\ i' = i + 1
    /\ log' = Append(log, "absent")
    /\ UNCHANGED <<base_type, n_images, xs, sinthetas, pc, err, theta_baseline,
                   prev_baseline,
                   in_x, in_theta, cand, cluster, cluster_theta, voltage,
                   sample, fit1, fit2, rprime>>

\* an iteration of lines 156-168 in which detect returns the vectors d. When
\* calc_x_and_sintheta returns None the unpacking of line 166 raises
\* TypeError, which nothing catches.
ProcessImage(d, v) ==
    /\ pc = "loop"
    /\ i < n_images
    /\ i' = i + 1
    /\ LET c == DetectionClusters[d]
           s == CalcXAndSintheta(base_type, c.cluster, c.cluster_theta, v,
                                 FreshBaseline(theta_baseline))
       IN  /\ cluster' = c.cluster
           /\ cluster_theta' = c.cluster_theta
           /\ IF c.none
              THEN /\ log' = Append(log, "nocluster")
                   /\ UNCHANGED <<xs, sinthetas, pc, err, theta_baseline, prev_baseline,
                                voltage, sample>>
              ELSE /\ voltage' = v
                   /\ prev_baseline' = theta_baseline
                   /\ theta_baseline' = s.tb
                   /\ sample' = [none |-> s.none, x |-> s.x, sintheta |-> s.sintheta]
                   /\ IF s.none
                      THEN /\ log' = Append(log, "nosample")
                           /\ pc' = "raised"
                           /\ err' = "TypeError"
                           /\ UNCHANGED <<xs, sinthetas>>
                      ELSE /\ log' = Append(log, "appended")
                           /\ xs' = Append(xs, s.x)
                           /\ sinthetas' = Append(sinthetas, s.sintheta)
                           /\ UNCHANGED <<pc, err>>
    /\ UNCHANGED <<base_type, n_images, in_x, in_theta, cand, fit1, fit2, rprime>>

\* lines 170-175 once the loop is over
Fit(lapack) ==
    /\ pc = "loop"
    /\ i = n_images
    /\ LET f == FitXsAndSinthetas(xs, sinthetas, lapack)
       IN  /\ fit1' = f.fit1
           /\ fit2' = f.fit2
           /\ pc' = IF f.raised THEN "raised" ELSE "returned"
           /\ err' = IF f.raised THEN "LinAlgError" ELSE "none"
           /\ rprime' = IF f.raised THEN NoRprime ELSE [nan |-> f.nan, val |-> f.rprime]
    /\ UNCHANGED <<base_type, n_images, i, xs, sinthetas, log, theta_baseline,
                   prev_baseline,
                   in_x, in_theta, cand, cluster, cluster_theta, voltage, sample>>

Next ==
    \/ DetectAbsent
    \/ \E d \in Detections, v \in Voltages : ProcessImage(d, v)
    \/ \E lapack \in {"LinAlgError", "nan"} : Fit(lapack)

Spec == Init /\ [][Next]_vars

-----------------------------------------------------------------------------
(* clustering on its own, over every spot list of the bounds *)

InitClustering ==
    /\ \E d \in SpotSeqs(ClRadii, ClAngles, MaxSpots) :
          in_x = XOf(d) /\ in_theta = ThetaOf(d)
    /\ pc = "call"
    /\ base_type = [kind |-> "Au", surface |-> "110"]
    /\ n_images = 0
    /\ i = 0
    /\ xs = <<0>>
    /\ sinthetas = <<0>>
    /\ err = "none"
    /\ log = <<>>
    /\ theta_baseline = <<Unset, Unset>>
    /\ prev_baseline = <<Unset, Unset>>
    /\ cand = [cluster |-> <<>>, cluster_theta |-> <<>>]
    /\ cluster = <<>>
    /\ cluster_theta = <<>>
    /\ voltage = 0
    /\ sample = NoCall
    /\ fit1 = NoFit
    /\ fit2 = NoFit
    /\ rprime = NoRprime

CallClustering ==
    /\ pc = "call"
    /\ pc' = "done"
    /\ LET c == Clustering(in_x, in_theta)
       IN  /\ cand' = Candidates(in_x, in_theta)
           /\ cluster' = c.cluster
           /\ cluster_theta' = c.cluster_theta
    /\ UNCHANGED <<base_type, n_images, i, xs, sinthetas, err, log, theta_baseline,
                   prev_baseline,
                   in_x, in_theta, voltage, sample, fit1, fit2, rprime>>

SpecClustering == InitClustering /\ [][CallClustering]_vars

-----------------------------------------------------------------------------
(* calc_x_and_sintheta on its own, over every cluster list of the bounds *)

InitCalc ==
    /\ base_type \in BaseTypes
    /\ voltage \in Voltages
    /\ \E l \in CalcLists :
          /\ cluster = [k \in 1..Len(l) |-> l[k].r]
          /\ cluster_theta = [k \in 1..Len(l) |-> l[k].th]
    /\ pc = "call"
    /\ n_images = 0
    /\ i = 0
    /\ xs = <<0>>
    /\ sinthetas = <<0>>
    /\ err = "none"
    /\ log = <<>>
    /\ theta_baseline = <<Unset, Unset>>
    /\ prev_baseline = <<Unset, Unset>>
    /\ in_x = <<>>
    /\ in_theta = <<>>
    /\ cand = [cluster |-> <<>>, cluster_theta |-> <<>>]
    /\ sample = NoCall
    /\ fit1 = NoFit
    /\ fit2 = NoFit
    /\ rprime = NoRprime

CallCalc ==
    /\ pc = "call"
    /\ pc' = "done"
    /\ LET s == CalcXAndSintheta(base_type, cluster, cluster_theta, voltage,
                                 FreshBaseline(theta_baseline))
       IN  /\ theta_baseline' = s.tb
           /\ sample' = [none |-> s.none, x |-> s.x, sintheta |-> s.sintheta]
    /\ UNCHANGED <<base_type, n_images, i, xs, sinthetas, err, log, in_x, in_theta,
                   prev_baseline,
                   cand, cluster, cluster_theta, voltage, fit1, fit2, rprime>>

SpecCalc == InitCalc /\ [][CallCalc]_vars

-----------------------------------------------------------------------------
(* Properties *)

Last(s) == s[Len(s)]

\* the number of entries of s that lie in set
Count(s, set) == Cardinality({k \in 1..Len(s) : s[k] \in set})

\* the last iteration called calc_x_and_sintheta
CalledCalc == Len(log) > 0 /\ Last(log) \in {"nosample", "appended"}

\* C1: an image whose clusters match no acceptance rule is skipped: no
\* exception surfaces, xs and sinthetas stay as they were, and the run goes
\* on to the next image and to the fit.
C1_NoSampleImageSkipped ==
    (Len(log) > 0 /\ Last(log) = "nosample") =>
        /\ err # "TypeError"
        /\ pc # "raised"
        /\ Len(xs) = 1 + Count(log, {"appended"})

\* C2: a run in which at most one image is usable, and every other image
\* yields no detection, never returns a slope.
C2_FewUsableImagesFatal ==
    (/\ pc \in {"returned", "raised"}
     /\ Count(log, {"absent", "appended"}) = Len(log)
     /\ Count(log, {"appended"}) <= 1)
    => ~(pc = "returned" /\ ~rprime.nan)

\* C3: two spots alone, on the same ring, are retained as a cluster when
\* their angles differ by pi or by pi +/- 0.05, and no cluster is returned
\* when the angles differ by pi +/- 0.2.
C3_TwoOpposedSpotsRetained ==
    (pc = "done" /\ Len(in_x) = 2) =>
        LET off == Abs(PI - Abs(in_theta[1] - in_theta[2]))
            same_ring == Abs(BinStart(BinIndex(in_x[1])) - BinStart(BinIndex(in_x[2])))
                            <= delta_bin
        IN  /\ (off \in {0, 50} /\ same_ring) =>
                   (cluster = <<in_x>> /\ cluster_theta = <<in_theta>>)
            /\ off = 200 => cluster = <<>>

\* two radii with a gap of more than delta_bin between two successive
\* non-empty bins that lie between them
AcrossGap(x, a, b) ==
    \E p, q \in NonEmptyBins(x) :
        /\ p < q
        /\ \A m \in NonEmptyBins(x) : ~(p < m /\ m < q)
        /\ BinStart(q) > BinStart(p) + delta_bin
        /\ BinIndex(a) <= p
        /\ q <= BinIndex(b)

\* C6: two radii on opposite sides of a gap of more than 10 between successive
\* non-empty bins are never members of the same returned cluster.
C6_GapSeparatesClusters ==
    pc = "done" =>
        \A j \in 1..Len(cluster) : \A m, n \in 1..Len(cluster[j]) :
            ~AcrossGap(in_x, cluster[j][m], cluster[j][n])

\* pair (a, b) comes before pair (c, d) in the order of 2-combinations
Earlier(a, b, c, d) == a < c \/ (a = c /\ b < d)

HasOpposedPair(th) == \E a, b \in 1..Len(th) : a < b /\ Opposed(th[a], th[b])

\* pair is the last pair of th, in the order of 2-combinations, that passes
\* the opposition test
IsLastOpposedPair(th, pair) ==
    \E a, b \in 1..Len(th) :
        /\ a < b
        /\ Opposed(th[a], th[b])
        /\ pair = <<th[a], th[b]>>
        /\ \A c, d \in 1..Len(th) :
              (c < d /\ Earlier(a, b, c, d)) => ~Opposed(th[c], th[d])

\* C7: the returned clusters are the candidates with an opposed pair of
\* angles, in order, with their radii unchanged and with the last opposed
\* pair of 2-combination order as their angles.
C7_LastOpposedPairKept ==
    pc = "done" =>
        LET valid == SelectSeq([j \in 1..Len(cand.cluster) |-> j],
                               LAMBDA j : HasOpposedPair(cand.cluster_theta[j]))
        IN  /\ Len(cluster) = Len(valid)
            /\ Len(cluster_theta) = Len(valid)
            /\ \A k \in 1..Len(valid) :
                  /\ cluster[k] = cand.cluster[valid[k]]
                  /\ IsLastOpposedPair(cand.cluster_theta[valid[k]], cluster_theta[k])

\* a cluster of three spots whose first angle is opposed to both others, which
\* differ: the first and the last opposed pair are not the same
C7_Witness ==
    /\ pc = "done"
    /\ Len(cluster) = 1
    /\ Len(cand.cluster_theta) = 1
    /\ LET th == cand.cluster_theta[1]
       IN  /\ Len(th) = 3
           /\ Opposed(th[1], th[2])
           /\ Opposed(th[1], th[3])
           /\ ~Opposed(th[2], th[3])
           /\ th[2] # th[3]

\* the point (u, x) = (0, 0) is among the data f of a np.polyfit call
HasSeed(f) == \E k \in 1..Len(f.u) : f.u[k] = 0 /\ f.x[k] = 0

\* C4: xs and sinthetas begin with the seed (0, 0), and the point (u, x) =
\* (0, 0) is among the data of each np.polyfit call that was made.
C4_SeedInBothPasses ==
    /\ xs[1] = 0
    /\ sinthetas[1] = 0
    /\ (pc = "returned" \/ err = "LinAlgError") => HasSeed(fit1)
    /\ (pc = "returned" \/ fit2 # NoFit) => HasSeed(fit2)

\* a fit whose first pass flags the seed as an outlier: the only (0, 0) of
\* the second pass is the inserted one
C4_Witness ==
    /\ pc = "returned"
    /\ Len(fit1.x) >= 3
    /\ Len(fit2.x) < Len(fit1.x)
    /\ Cardinality({k \in 1..Len(fit2.x) : fit2.u[k] = 0 /\ fit2.x[k] = 0}) = 1

\* C5: xs and sinthetas have one length, 1 plus the number of images so far
\* that had a detection and a valid cluster.
C5_OnePairPerNonSkippedImage ==
    /\ Len(xs) = Len(sinthetas)
    /\ Len(xs) = 1 + (Len(log) - Count(log, {"absent", "nocluster"}))

\* C8: after a call of calc_x_and_sintheta for surface 110 the first
\* reference slot holds the minimum angle of that call's first cluster, and
\* the result is the one the same arguments give in the first call of a run.
C8_BaselinePerCall ==
    CalledCalc =>
        /\ base_type.surface = "110" => theta_baseline[1] = SeqMin(cluster_theta[1])
        /\ LET s == CalcXAndSintheta(base_type, cluster, cluster_theta, voltage,
                                     <<Unset, Unset>>)
           IN  sample = [none |-> s.none, x |-> s.x, sintheta |-> s.sintheta]

\* a call for Au(110) that returns a sample although the call before it
\* left a reference angle its first cluster does not match
C8_Witness ==
    /\ CalledCalc
    /\ base_type = [kind |-> "Au", surface |-> "110"]
    /\ prev_baseline[1] # Unset
    /\ Abs(prev_baseline[1] - SeqMin(cluster_theta[1])) >= AngleTol
    /\ ~sample.none

\* cluster j of the last call qualifies for Au(110): its minimum angle is
\* within 0.1 rad of that of the first cluster and its order is at most 2
QualifiesAu(j) ==
    /\ Abs(SeqMin(cluster_theta[1]) - SeqMin(cluster_theta[j])) < AngleTol
    /\ (5 * Median2(cluster[j])) \div Lamb(voltage) + 1 <= 2

\* C9: for Au(110) the sample comes from the first cluster in list order that
\* qualifies, with sintheta = n * lambda / (2a); there is no sample when no
\* cluster qualifies.
C9_AuFirstQualifyingCluster ==
    (pc = "done" /\ base_type = [kind |-> "Au", surface |-> "110"]) =>
        IF \E j \in 1..Len(cluster) : QualifiesAu(j)
        THEN LET j0 == CHOOSE j \in 1..Len(cluster) :
                          QualifiesAu(j) /\ \A m \in 1..(j - 1) : ~QualifiesAu(m)
                 x == Median2(cluster[j0])
                 n == (5 * x) \div Lamb(voltage) + 1
             IN  /\ ~sample.none
                 /\ sample.x = x
                 /\ sample.sintheta = (n * Lamb(voltage) * 50000) \div 40786
        ELSE sample.none

\* the first cluster has order above 2 and is passed over for the second
C9_Witness ==
    /\ pc = "done"
    /\ base_type = [kind |-> "Au", surface |-> "110"]
    /\ Len(cluster) = 2
    /\ (5 * Median2(cluster[1])) \div Lamb(voltage) + 1 > 2
    /\ ~sample.none
    /\ sample.x = Median2(cluster[2])
    /\ sample.x # Median2(cluster[1])

\* C10: for Ag(110) and Cu(110) there is always a sample, taken from the first
\* cluster with order 1: sintheta = lambda / a.
C10_AgCuAlwaysFirstCluster ==
    (pc = "done" /\ base_type.surface = "110" /\ base_type.kind \in {"Ag", "Cu"}) =>
        /\ ~sample.none
        /\ sample.x = Median2(cluster[1])
        /\ sample.sintheta =
              (Lamb(voltage) * 100000) \div (IF base_type.kind = "Ag" THEN 40862 ELSE 36149)

\* two clusters of two angular families: the second reference slot is set,
\* away from the first
C10_Witness ==
    /\ pc = "done"
    /\ base_type = [kind |-> "Cu", surface |-> "110"]
    /\ Len(cluster) = 2
    /\ theta_baseline[2] # Unset
    /\ Abs(theta_baseline[2] - theta_baseline[1]) >= AngleTol
    /\ Median2(cluster[2]) # Median2(cluster[1])
    /\ ~sample.none

=============================================================================
